---- MODULE Spec2Model ----
(***************************************************************************)
(* A model of the dodgems bump allocator (src/src/lib.rs): the BumpCar     *)
(* arena, its Allocator implementation, and the checkpoint sub-arenas that *)
(* the test-suite and the specification describe.                          *)
(*                                                                         *)
(* Machine words are WordBits wide: usize is 0..UsizeMax and isize::MAX is *)
(* IsizeMax.  Offsets are byte offsets from the start of the root buffer.  *)
(***************************************************************************)
EXTENDS Integers, FiniteSets, Sequences

\* ------------------------------------------------------------ bounds ----
\* Width of usize / isize in bits.
WordBits == 4
\* Number of arena slots: the root BumpCar plus the checkpoints alive at once.
MaxArenas == 3
\* size_of::<usize>(), in bytes.
PtrSize == 4

RECURSIVE Pow2(_)
Pow2(n) == IF n = 0 THEN 1 ELSE 2 * Pow2(n - 1)

UsizeMax == Pow2(WordBits) - 1
IsizeMax == Pow2(WordBits - 1) - 1
Usize == 0 .. UsizeMax

\* Powers of two representable in usize: the values Layout::align() can take.
Aligns == { Pow2(k) : k \in 0 .. (WordBits - 1) }

\* core::alloc::Layout: align is a power of two and size, rounded up to
\* align, does not exceed isize::MAX.
Layouts == { l \in [size : 0 .. IsizeMax, align : Aligns] :
               l.size <= IsizeMax + 1 - l.align }

\* ------------------------------------------------- integer arithmetic ----
\* Bitwise exclusive or of two naturals.
RECURSIVE BitXor(_, _)
BitXor(a, b) ==
  IF a = 0 THEN b
  ELSE IF b = 0 THEN a
  ELSE (((a % 2) + (b % 2)) % 2) + (2 * BitXor(a \div 2, b \div 2))

\* usize addition as the release build performs it.
WrappingAdd(a, b) == (a + b) % (UsizeMax + 1)

\* usize::checked_add: None is rendered as -1.
None == 0 - 1
checked_add(a, b) == IF a + b > UsizeMax THEN None ELSE a + b

\* The smallest multiple of align that is >= n (the mathematical round-up).
SmallestMultiple(n, align) == ((n + align - 1) \div align) * align

\* Whether size + am in next_multiple exceeds usize::MAX.
next_multiple_overflows(size, align) == size + (align - 1) > UsizeMax

\* fn next_multiple(size, align): (size + am) ^ am with am = align - 1.
next_multiple(size, align) ==
  LET am == align - 1
  IN  BitXor(WrappingAdd(size, am), am)

\* ------------------------------------------------ the pure operations ----
\* The outcome of an Allocator call: ok, the block's offset from the start
\* of the arena's buffer, its length, and the arena's position afterwards.
Outcome(ok, off, len, position) ==
  [ok |-> ok, off |-> off, len |-> len, position |-> position]

\* allocate with the capacity check left out.
allocate_unchecked(position, len, layout) ==
  LET closest_align == next_multiple(position, layout.align)
      new_pos       == checked_add(closest_align, layout.size)
  IN  IF new_pos = None THEN Outcome(FALSE, 0, 0, position)
      ELSE Outcome(TRUE, closest_align, layout.size, new_pos)

\* allocate storing the aligned offset, not the block's end, as the position.
allocate_no_bump(position, len, layout) ==
  LET closest_align == next_multiple(position, layout.align)
      new_pos       == checked_add(closest_align, layout.size)
  IN  IF new_pos = None THEN Outcome(FALSE, 0, 0, position)
      ELSE IF new_pos > len THEN Outcome(FALSE, 0, 0, position)
      ELSE Outcome(TRUE, closest_align, layout.size, closest_align)

\* allocate storing the aligned offset before it checks the capacity.
allocate_early_store(position, len, layout) ==
  LET closest_align == next_multiple(position, layout.align)
      new_pos       == checked_add(closest_align, layout.size)
  IN  IF new_pos = None THEN Outcome(FALSE, 0, 0, closest_align)
      ELSE IF new_pos > len THEN Outcome(FALSE, 0, 0, closest_align)
      ELSE Outcome(TRUE, closest_align, layout.size, new_pos)

\* allocate refusing a block that ends exactly at the end of the buffer.
allocate_off_by_one(position, len, layout) ==
  LET closest_align == next_multiple(position, layout.align)
      new_pos       == checked_add(closest_align, layout.size)
  IN  IF new_pos = None THEN Outcome(FALSE, 0, 0, position)
      ELSE IF new_pos >= len THEN Outcome(FALSE, 0, 0, position)
      ELSE Outcome(TRUE, closest_align, layout.size, new_pos)

\* <&BumpCar as Allocator>::allocate on an arena with the given position
\* and buffer length.
allocate(position, len, layout) ==
  LET closest_align == next_multiple(position, layout.align)
      new_pos       == checked_add(closest_align, layout.size)
  IN  IF new_pos = None THEN Outcome(FALSE, 0, 0, position)
      ELSE IF new_pos > len THEN Outcome(FALSE, 0, 0, position)
      ELSE Outcome(TRUE, closest_align, layout.size, new_pos)

\* grow extending in place a block that ends at the position.
grow_in_place(position, len, old_layout, new_layout) ==
  LET start == position - old_layout.size
  IN  IF start < 0 \/ start + new_layout.size > len
      THEN Outcome(FALSE, 0, 0, position)
      ELSE Outcome(TRUE, start, new_layout.size, start + new_layout.size)

\* Allocator::grow is not overridden: the provided method allocates
\* new_layout, copies the old bytes and deallocates the old block.
grow(position, len, old_layout, new_layout) ==
  allocate(position, len, new_layout)

\* shrink giving the cut-off tail of the newest block back to the arena.
shrink_reclaims(position, ptr, old_layout, new_layout) ==
  IF old_layout.align < new_layout.align
  THEN Outcome(FALSE, 0, 0, position)
  ELSE Outcome(TRUE, ptr, new_layout.size,
               IF ptr + old_layout.size = position
               THEN ptr + new_layout.size ELSE position)

\* shrink demanding a strictly smaller alignment.
shrink_strict(position, ptr, old_layout, new_layout) ==
  IF old_layout.align <= new_layout.align
  THEN Outcome(FALSE, 0, 0, position)
  ELSE Outcome(TRUE, ptr, new_layout.size, position)

\* <&BumpCar as Allocator>::shrink of the block at offset ptr.
shrink(position, ptr, old_layout, new_layout) ==
  IF old_layout.align < new_layout.align
  THEN Outcome(FALSE, 0, 0, position)
  ELSE Outcome(TRUE, ptr, new_layout.size, position)

\* deallocate giving the last byte back to the arena.
deallocate_rewinds(position) == IF position > 0 THEN position - 1 ELSE 0

\* <&BumpCar as Allocator>::deallocate: the empty body.
deallocate(position) == position

\* can_allocate refusing a block that ends exactly at the end of the buffer.
can_allocate_strict(position, len, layout) ==
  LET closest_align == next_multiple(position, layout.align)
      new_pos       == checked_add(closest_align, layout.size)
  IN  IF new_pos = None THEN FALSE ELSE new_pos < len

\* BumpCar::can_allocate.
can_allocate(position, len, layout) ==
  LET closest_align == next_multiple(position, layout.align)
      new_pos       == checked_add(closest_align, layout.size)
  IN  IF new_pos = None THEN FALSE ELSE new_pos <= len

\* can_allocate written as a trial allocation that is not undone.
can_allocate_commits(position, len, layout) ==
  allocate(position, len, layout).position

\* The position BumpCar::can_allocate leaves: it only reads the Cell.
can_allocate_leaves(position, len, layout) == position

\* BumpCar::capacity.
capacity(a) == a.len

\* remaining_capacity forgetting the position.
remaining_capacity_whole(a) == capacity(a)

\* BumpCar::remaining_capacity.
remaining_capacity(a) == capacity(a) - a.position

\* reset leaving the position where it is.
reset_keeps(position) == position

\* BumpCar::reset: the position after the call.
reset(position) == 0

\* new_in checking the capacity but not its pointer-aligned multiple.
new_in_rejects_unrounded(cap) == cap > IsizeMax

\* new_in with no check of the capacity.
new_in_rejects_nothing(cap) == FALSE

\* The checks of BumpCar::new_in that precede the call of the backing
\* allocator: TRUE when the capacity is rejected.
new_in_rejects(cap) ==
  \/ cap > IsizeMax
  \/ next_multiple(cap, PtrSize) > IsizeMax

\* The addresses the backing allocator may return for a buffer of
\* Layout::from_size_align(capacity, size_of::<usize>()): non-null and a
\* multiple of the pointer size.  No operation reads the address.
BufferAddrs == { p \in 1 .. UsizeMax : p % PtrSize = 0 }

\* ---------------------------------------------------------- the state ----
VARIABLES
  phase,     \* "none", "live", "failed" or "dropped": the root BumpCar's life
  arenas,    \* slot -> arena; slot 1 is the root BumpCar, the others checkpoints
  backing,   \* the calls the backing allocator has seen, in order, each
             \* <<call, size, align, whether it was granted>>
  last       \* the last operation: its arguments and its outcome

vars == <<phase, arenas, backing, last>>

Slots == 1 .. MaxArenas
Root  == 1

\* A slot holding no arena.
NoArena ==
  [live |-> FALSE, parent |-> 0, base |-> 0, len |-> 0, position |-> 0,
   twin |-> 0, hi |-> 0]

\* An arena as its constructor leaves it: position: Cell::new(0).
\*   base  the offset of its buffer in the root buffer (pointer);
\*   len   pointer.len();
\*   twin  the position of a freshly constructed arena of the same capacity
\*         that has received the calls this arena received since its last
\*         reset (history, read by no operation);
\*   hi    the largest end offset of the non-empty blocks granted since the
\*         last reset (history, read by no operation).
NewArena(parent, base, len) ==
  [live |-> TRUE, parent |-> parent, base |-> base, len |-> len,
   position |-> 0, twin |-> 0, hi |-> 0]

NoLayout == [size |-> 0, align |-> 1]

\* The record of a call: op on arena id with layout (for shrink, of the
\* block at ptr whose old layout has alignment oldAlign); pre and hi are the
\* arena's position and hi before the call and cap its capacity before the
\* call; ok, off, len its outcome; twinOk, twinOff the outcome of the same
\* call on the twin.
Last(op, id, layout, ptr, old, a, out, twinOut) ==
  [op |-> op, id |-> id, layout |-> layout, ptr |-> ptr, oldAlign |-> old.align,
   pre |-> a.position, hi |-> a.hi, cap |-> a.len,
   ok |-> out.ok, off |-> out.off, len |-> out.len,
   twinOk |-> twinOut.ok, twinOff |-> twinOut.off]

Quiet == Outcome(TRUE, 0, 0, 0)
Failed == Outcome(FALSE, 0, 0, 0)

Live(i) == arenas[i].live
Children(i) == { j \in Slots : arenas[j].live /\ arenas[j].parent = i }

Max(a, b) == IF a >= b THEN a ELSE b

\* The caller holds the block the last call returned, if it returned one.
HoldsBlock ==
  /\ last.op \in {"allocate", "grow", "shrink"}
  /\ last.ok
  /\ Live(last.id)

\* The arena after a call with outcome out (tw on its twin) that granted a
\* block when granted holds.
After(a, out, tw, granted) ==
  [a EXCEPT !.position = out.position,
            !.twin = tw.position,
            !.hi = IF granted /\ out.ok /\ out.len > 0
                   THEN Max(a.hi, out.off + out.len) ELSE a.hi]

Init ==
  /\ phase = "none"
  /\ arenas = [i \in Slots |-> NoArena]
  /\ backing = <<>>
  /\ last = Last("none", 0, NoLayout, 0, NoLayout, NoArena, Quiet, Quiet)

\* drop returning only the unused tail of the buffer.
drop_layout_remaining(a) == <<remaining_capacity(a), PtrSize>>

\* The layout drop hands to the backing allocator: the buffer's length and
\* the pointer size.
drop_layout(a) == <<a.len, PtrSize>>

\* -------------------------------------------------------- the actions ----
\* BumpCar::new_in(cap, allocator); the backing allocator may refuse.
NewIn(cap, refuses) ==
  /\ phase = "none"
  /\ LET layout == [size |-> cap, align |-> PtrSize]
     IN  IF new_in_rejects(cap)
         THEN /\ phase' = "failed"
              /\ UNCHANGED <<arenas, backing>>
              /\ last' = Last("new_in", Root, layout, 0, NoLayout, NoArena, Failed, Quiet)
         ELSE /\ backing' = Append(backing, <<"allocate", cap, PtrSize, ~refuses>>)
              /\ IF refuses
                 THEN /\ phase' = "failed"
                      /\ UNCHANGED arenas
                      /\ last' = Last("new_in", Root, layout, 0, NoLayout, NoArena,
                                      Failed, Quiet)
                 ELSE /\ phase' = "live"
                      /\ arenas' = [arenas EXCEPT ![Root] = NewArena(0, 0, cap)]
                      /\ last' = Last("new_in", Root, layout, 0, NoLayout, NoArena,
                                      Outcome(TRUE, 0, cap, 0), Quiet)

\* (&arena).allocate(layout)
Allocate(i, layout) ==
  /\ Live(i)
  /\ LET a   == arenas[i]
         out == allocate(a.position, a.len, layout)
         tw  == allocate(a.twin, a.len, layout)
     IN  /\ arenas' = [arenas EXCEPT ![i] = After(a, out, tw, TRUE)]
         /\ last' = Last("allocate", i, layout, 0, NoLayout, a, out, tw)
  /\ UNCHANGED <<phase, backing>>

\* (&arena).deallocate(ptr, layout) of the block the caller holds
Deallocate ==
  /\ HoldsBlock
  /\ LET a   == arenas[last.id]
         out == Outcome(TRUE, 0, 0, deallocate(a.position))
         tw  == Outcome(TRUE, 0, 0, deallocate(a.twin))
     IN  /\ arenas' = [arenas EXCEPT ![last.id] = After(a, out, tw, FALSE)]
         /\ last' = Last("deallocate", last.id, NoLayout, 0, NoLayout, a, out, tw)
  /\ UNCHANGED <<phase, backing>>

\* (&arena).shrink(ptr, old_layout, new_layout) of the block the caller
\* holds, with new_layout.size() <= old_layout.size()
Shrink(new_layout) ==
  /\ HoldsBlock
  /\ new_layout.size <= last.layout.size
  /\ LET a   == arenas[last.id]
         out == shrink(a.position, last.off, last.layout, new_layout)
         tw  == shrink(a.twin, last.off, last.layout, new_layout)
     IN  /\ arenas' = [arenas EXCEPT ![last.id] = After(a, out, tw, FALSE)]
         /\ last' = Last("shrink", last.id, new_layout, last.off, last.layout, a, out, tw)
  /\ UNCHANGED <<phase, backing>>

\* (&arena).grow(ptr, old_layout, new_layout) of the block the caller holds,
\* with new_layout.size() >= old_layout.size()
Grow(new_layout) ==
  /\ HoldsBlock
  /\ new_layout.size >= last.layout.size
  /\ LET a   == arenas[last.id]
         out == grow(a.position, a.len, last.layout, new_layout)
         tw  == grow(a.twin, a.len, last.layout, new_layout)
     IN  /\ arenas' = [arenas EXCEPT ![last.id] = After(a, out, tw, TRUE)]
         /\ last' = Last("grow", last.id, new_layout, 0, NoLayout, a, out, tw)
  /\ UNCHANGED <<phase, backing>>

\* arena.can_allocate(layout)
CanAllocate(i, layout) ==
  /\ Live(i)
  /\ LET a == arenas[i]
     IN  /\ last' = Last("can_allocate", i, layout, 0, NoLayout, a,
                      Outcome(can_allocate(a.position, a.len, layout), 0, 0, a.position),
                      Outcome(can_allocate(a.twin, a.len, layout), 0, 0, a.twin))
         /\ arenas' = [arenas EXCEPT
                         ![i].position = can_allocate_leaves(a.position, a.len, layout),
                         ![i].twin = can_allocate_leaves(a.twin, a.len, layout)]
  /\ UNCHANGED <<phase, backing>>

\* arena.capacity() and arena.remaining_capacity()
Query(i) ==
  /\ Live(i)
  /\ LET a == arenas[i]
     IN  last' = Last("query", i, NoLayout, 0, NoLayout, a,
                      Outcome(TRUE, remaining_capacity(a), capacity(a), a.position),
                      Outcome(TRUE, capacity(a) - a.twin, capacity(a), a.twin))
  /\ UNCHANGED <<phase, arenas, backing>>

\* arena.reset(): it takes &mut self, so no checkpoint of the arena is
\* alive, and the blocks the arena granted are no longer valid.
Reset(i) ==
  /\ Live(i)
  /\ Children(i) = {}
  /\ LET a == arenas[i]
     IN  /\ arenas' = [arenas EXCEPT ![i] =
                         [a EXCEPT !.position = reset(a.position), !.twin = 0, !.hi = 0]]
         /\ last' = Last("reset", i, NoLayout, 0, NoLayout, a, Quiet, Quiet)
  /\ UNCHANGED <<phase, backing>>

\* arena.checkpoint(): the new checkpoint owns the parent's free tail
\* [position, len), with its own position 0; the parent is left with no
\* remaining capacity.
checkpoint(a) ==
  [parent |-> [a EXCEPT !.position = a.len, !.twin = a.len],
   base   |-> a.base + a.position,
   len    |-> a.len - a.position]

FreeSlots == { j \in Slots : ~arenas[j].live }
NextSlot == CHOOSE j \in FreeSlots : \A k \in FreeSlots : j <= k

Checkpoint(i) ==
  /\ Live(i)
  /\ FreeSlots # {}
  /\ LET a == arenas[i]
         c == checkpoint(a)
         j == NextSlot
     IN  /\ arenas' = [arenas EXCEPT ![i] = c.parent,
                                     ![j] = NewArena(i, c.base, c.len)]
         /\ last' = Last("checkpoint", i, NoLayout, 0, NoLayout, a,
                         Outcome(TRUE, j, c.len, c.parent.position), Quiet)
  /\ UNCHANGED <<phase, backing>>

\* drop(checkpoint): nothing is returned to the parent; a checkpoint is
\* borrowed by its own checkpoints, so only a childless one can be dropped.
DropCheckpoint(j) ==
  /\ j # Root
  /\ Live(j)
  /\ Children(j) = {}
  /\ arenas' = [arenas EXCEPT ![j] = NoArena]
  /\ last' = Last("drop_checkpoint", j, NoLayout, 0, NoLayout, arenas[j], Quiet, Quiet)
  /\ UNCHANGED <<phase, backing>>

\* <BumpCar as Drop>::drop: the buffer goes back to the backing allocator.
Drop ==
  /\ phase = "live"
  /\ Children(Root) = {}
  /\ phase' = "dropped"
  /\ backing' = Append(backing, <<"deallocate", drop_layout(arenas[Root])[1],
                                 drop_layout(arenas[Root])[2], TRUE>>)
  /\ arenas' = [arenas EXCEPT ![Root] = NoArena]
  /\ last' = Last("drop", Root, [size |-> arenas[Root].len, align |-> PtrSize], 0,
                  NoLayout, arenas[Root], Quiet, Quiet)

Next ==
  \/ \E cap \in Usize, refuses \in BOOLEAN : NewIn(cap, refuses)
  \/ \E i \in Slots, layout \in Layouts : Allocate(i, layout)
  \/ Deallocate
  \/ \E layout \in Layouts : Shrink(layout)
  \/ \E layout \in Layouts : Grow(layout)
  \/ \E i \in Slots, layout \in Layouts : CanAllocate(i, layout)
  \/ \E i \in Slots : Query(i)
  \/ \E i \in Slots : Reset(i)
  \/ \E i \in Slots : Checkpoint(i)
  \/ \E j \in Slots : DropCheckpoint(j)
  \/ Drop

Spec == Init /\ [][Next]_vars

\* ------------------------------------------------------------ claims ----
\* The last call granted a block: a successful allocate or grow.
Granted == last.op \in {"allocate", "grow"} /\ last.ok

\* C1: a successful allocate returns the smallest multiple of align that is
\* >= the cursor, sets the cursor to that offset plus size, and so lowers
\* remaining_capacity() by size plus a padding smaller than align.
C1_AlignedBump ==
  (last.op = "allocate" /\ last.ok) =>
    /\ last.off = SmallestMultiple(last.pre, last.layout.align)
    /\ arenas[last.id].position = last.off + last.layout.size
    /\ (last.cap - last.pre) - remaining_capacity(arenas[last.id])
         < last.layout.size + last.layout.align

\* C2: between two resets of an arena, a newly granted non-empty block
\* starts at or after the end of every non-empty block the arena granted
\* before it (so no two of them overlap), and lies inside [0, C).
C2_NoOverlap ==
  /\ (Granted /\ last.len > 0) =>
       /\ last.off >= last.hi
       /\ last.off + last.len <= capacity(arenas[last.id])
       /\ arenas[last.id].hi = last.off + last.len
  /\ \A i \in Slots : Live(i) => arenas[i].hi <= capacity(arenas[i])

\* C2 witness: an arena that had granted a non-empty block granted another.
C2_Witness == Granted /\ last.len > 0 /\ last.hi > 0

\* C3: 0 <= cursor <= C in every state, remaining_capacity() does not
\* underflow, and capacity() stays the capacity given at construction.
C3_CursorInBounds ==
  /\ \A i \in Slots : Live(i) =>
       /\ 0 <= arenas[i].position
       /\ arenas[i].position <= capacity(arenas[i])
       /\ remaining_capacity(arenas[i]) \in 0 .. capacity(arenas[i])
  /\ phase = "live" => capacity(arenas[Root]) = backing[1][2]

\* C3 witness: a full, non-empty root arena has just refused a request.
C3_Witness ==
  /\ last.op \in {"allocate", "grow"} /\ ~last.ok /\ last.id = Root
  /\ arenas[Root].position = capacity(arenas[Root])
  /\ capacity(arenas[Root]) > 0

\* C4: allocate succeeds exactly when R + size <= C, R being the smallest
\* multiple of align that is >= the cursor.
C4_SucceedsIffFits ==
  last.op = "allocate" =>
    (last.ok <=> SmallestMultiple(last.pre, last.layout.align) + last.layout.size
                   <= last.cap)

\* C5: a failing allocate, shrink or grow leaves the cursor, and so
\* remaining_capacity() and capacity(), as they were before the call.
C5_FailureLeavesState ==
  (last.op \in {"allocate", "shrink", "grow"} /\ ~last.ok) =>
    /\ arenas[last.id].position = last.pre
    /\ capacity(arenas[last.id]) = last.cap
    /\ remaining_capacity(arenas[last.id]) = last.cap - last.pre

\* C5 witness: a request was refused by an arena that is partly used.
C5_Witness ==
  /\ last.op \in {"allocate", "grow"} /\ ~last.ok
  /\ last.pre > 0 /\ last.pre < last.cap

C7_ResetIsFresh ==
  /\ last.op = "reset" =>
       /\ arenas[last.id].position = 0
       /\ remaining_capacity(arenas[last.id]) = capacity(arenas[last.id])
       /\ capacity(arenas[last.id]) = last.cap
       /\ reset(arenas[last.id].position) = arenas[last.id].position
       /\ [arenas[last.id] EXCEPT !.parent = 0, !.base = 0]
            = NewArena(0, 0, last.cap)
  /\ \A i \in Slots : Live(i) => arenas[i].twin = arenas[i].position
  /\ last.op \in {"allocate", "grow", "shrink", "can_allocate", "query"} =>
       /\ last.ok = last.twinOk
       /\ last.off = last.twinOff

\* C7 witness: a used root arena has been reset.
C7_Witness == last.op = "reset" /\ last.id = Root /\ last.pre > 0

\* C8: checkpoint() on an arena with cursor c and capacity C yields a
\* checkpoint with capacity() = remaining_capacity() = C - c and cursor 0
\* (capacity 0 when the arena was exhausted); the parent of a live
\* checkpoint has no remaining capacity, also after the checkpoint is reset,
\* and a reset checkpoint has its whole capacity remaining.
C8_CheckpointTakesTail ==
  /\ last.op = "checkpoint" =>
       /\ Live(last.off)
       /\ arenas[last.off].parent = last.id
       /\ capacity(arenas[last.off]) = last.cap - last.pre
       /\ remaining_capacity(arenas[last.off]) = last.cap - last.pre
       /\ arenas[last.off].position = 0
       /\ capacity(arenas[last.id]) = last.cap
       /\ (last.pre = last.cap => capacity(arenas[last.off]) = 0)
  /\ \A j \in Slots : (Live(j) /\ j # Root) =>
       /\ Live(arenas[j].parent)
       /\ remaining_capacity(arenas[arenas[j].parent]) = 0
  /\ (last.op = "reset" /\ last.id # Root) =>
       remaining_capacity(arenas[last.id]) = capacity(arenas[last.id])

\* C8 witness: a checkpoint that was used up has been checkpointed.
C8_Witness ==
  /\ last.op = "checkpoint" /\ last.id # Root
  /\ last.pre = last.cap /\ last.cap > 0

\* The bytes of the root buffer an arena owns.
RegionLo(i) == arenas[i].base
RegionHi(i) == arenas[i].base + arenas[i].len

\* C9: the blocks of a checkpoint lie in the free tail its parent had when
\* the checkpoint was made: the tail ends where the parent's buffer ends,
\* starts at or after the end of every non-empty block of the parent, holds
\* every block of the checkpoint, and shares no byte with the region of
\* another checkpoint of the same parent.  So no block of a checkpoint
\* overlaps a block of an ancestor or of another checkpoint.
C9_CheckpointsDisjoint ==
  /\ \A j \in Slots : (Live(j) /\ j # Root) =>
       LET i == arenas[j].parent
       IN  /\ RegionHi(j) = RegionHi(i)
           /\ RegionLo(j) >= RegionLo(i) + arenas[i].hi
           /\ RegionLo(j) + arenas[j].hi <= RegionHi(j)
  /\ \A j, k \in Slots :
       (Live(j) /\ Live(k) /\ j # k /\ j # Root /\ k # Root
          /\ arenas[j].parent = arenas[k].parent) =>
         \/ RegionHi(j) <= RegionLo(k)
         \/ RegionHi(k) <= RegionLo(j)
         \/ arenas[j].len = 0
         \/ arenas[k].len = 0
  /\ (Granted /\ last.len > 0) =>
       /\ RegionLo(last.id) + last.off >= RegionLo(last.id) + last.hi
       /\ RegionLo(last.id) + last.off + last.len <= RegionHi(last.id)
       /\ \A j \in Children(last.id) :
            RegionLo(last.id) + last.off + last.len <= RegionLo(j)

\* C9 witness: a checkpoint of a checkpoint granted a non-empty block after
\* the root arena and the checkpoint between them had each granted one.
C9_Witness ==
  /\ Granted /\ last.len > 0
  /\ last.id # Root
  /\ arenas[last.id].parent # Root
  /\ arenas[arenas[last.id].parent].hi > 0
  /\ arenas[Root].hi > 0

\* C10: shrink to a size no larger succeeds if and only if the new
\* alignment does not exceed the old one; on success the block keeps its
\* base address and has the new size; otherwise the call fails.
C10_ShrinkIffAlignFits ==
  last.op = "shrink" =>
    /\ last.ok <=> (last.layout.align <= last.oldAlign)
    /\ last.ok => (last.off = last.ptr /\ last.len = last.layout.size)

\* C10 witness: a block not at the start of the buffer was shrunk to a
\* smaller size with its alignment kept.
C10_Witness ==
  /\ last.op = "shrink" /\ last.ok
  /\ last.ptr > 0
  /\ last.layout.align = last.oldAlign
  /\ last.layout.align > 1
\* C11: deallocate and shrink, successful or not, leave the cursor and so
\* remaining_capacity() exactly as they were before the call.
C11_NoReclaim ==
  last.op \in {"deallocate", "shrink"} =>
    /\ arenas[last.id].position = last.pre
    /\ capacity(arenas[last.id]) = last.cap
    /\ remaining_capacity(arenas[last.id]) = last.cap - last.pre

\* C11 witness: a block of a partly used arena has been deallocated.
C11_Witness ==
  /\ last.op = "deallocate"
  /\ last.pre > 0 /\ last.pre < last.cap
\* C12: capacity(), remaining_capacity() and can_allocate() leave the cursor
\* as it was, so every allocate that follows has the outcome it would have
\* had without the query.
C12_QueriesReadOnly ==
  last.op \in {"can_allocate", "query"} =>
    /\ arenas[last.id].position = last.pre
    /\ capacity(arenas[last.id]) = last.cap
    /\ \A l \in Layouts :
         allocate(arenas[last.id].position, capacity(arenas[last.id]), l)
           = allocate(last.pre, last.cap, l)

\* C12 witness: a partly used arena answered that a non-empty request fits.
C12_Witness ==
  /\ last.op = "can_allocate" /\ last.ok
  /\ last.layout.size > 0
  /\ last.pre > 0
\* C13: new_in fails if and only if the capacity rounded up to the next
\* multiple of the pointer size exceeds isize::MAX (then the backing
\* allocator is not called) or the backing allocator refuses; the rounding
\* does not overflow the word; on success the arena has cursor 0 and
\* capacity() = remaining_capacity() = the capacity asked for.
C13_NewInChecks ==
  last.op = "new_in" =>
    LET cap     == last.layout.size
        tooBig  == SmallestMultiple(cap, PtrSize) > IsizeMax
        refused == backing # <<>> /\ ~backing[1][4]
    IN  /\ tooBig => (~last.ok /\ backing = <<>>)
        /\ ~tooBig => backing = << <<"allocate", cap, PtrSize, last.ok>> >>
        /\ ~last.ok <=> (tooBig \/ refused)
        /\ cap <= IsizeMax => ~next_multiple_overflows(cap, PtrSize)
        /\ last.ok =>
             /\ phase = "live"
             /\ arenas[Root].position = 0
             /\ capacity(arenas[Root]) = cap
             /\ remaining_capacity(arenas[Root]) = cap
        /\ ~last.ok => (phase = "failed" /\ ~Live(Root))

\* C13 witness: a capacity that is itself at most isize::MAX was rejected
\* for its pointer-aligned multiple, without a call of the backing allocator.
C13_Witness ==
  /\ last.op = "new_in" /\ ~last.ok
  /\ last.layout.size <= IsizeMax
  /\ backing = <<>>
\* C14: the address of every block the arena grants, buffer address plus
\* offset, is a multiple of the requested alignment, whatever pointer-aligned
\* address the backing allocator gave the buffer.
C14_AddressAligned ==
  (last.op = "allocate" /\ last.ok /\ last.id = Root) =>
    \A p \in BufferAddrs : (p + last.off) % last.layout.align = 0
\* C15: can_allocate(layout) answers true if and only if allocate(layout)
\* on the same state succeeds.
C15_CanAllocateAgrees ==
  /\ last.op = "can_allocate" =>
       last.ok = allocate(last.pre, last.cap, last.layout).ok
  /\ (last.op = "allocate" /\ ~last.ok) =>
       ~can_allocate(arenas[last.id].position, capacity(arenas[last.id]), last.layout)

\* C15 witness: can_allocate refused, for the padding, a non-empty request
\* no larger than the remaining capacity.
C15_Witness ==
  /\ last.op = "can_allocate" /\ ~last.ok
  /\ last.layout.size > 0
  /\ last.layout.size <= last.cap - last.pre
\* C16: a grow is a fresh allocate of the new layout at the current cursor:
\* it succeeds when that allocate does, the new block starts at or after the
\* cursor (beyond the old block, whose bytes stay used), and the cursor
\* advances by the padding plus the new size.
C16_GrowAllocatesAfresh ==
  last.op = "grow" =>
    LET fresh == allocate(last.pre, last.cap, last.layout)
    IN  /\ last.ok = fresh.ok
        /\ last.ok =>
             /\ last.off = fresh.off
             /\ last.len = last.layout.size
             /\ last.off >= last.pre
             /\ last.off >= last.hi
             /\ arenas[last.id].position = last.off + last.layout.size
             /\ remaining_capacity(arenas[last.id])
                  = last.cap - (last.off + last.layout.size)
        /\ ~last.ok => arenas[last.id].position = last.pre

\* C16 witness: in an arena of 4 bytes the 1-byte block at offset 0 was
\* grown to 2 bytes, which leaves 1 byte of remaining capacity.
C16_Witness ==
  /\ last.op = "grow" /\ last.ok
  /\ last.cap = 4 /\ last.pre = 1 /\ last.hi = 1
  /\ last.layout = [size |-> 2, align |-> 1]
  /\ last.off = 1
  /\ remaining_capacity(arenas[last.id]) = 1
\* C17: no step lowers the cursor of an arena that stays alive, or raises
\* its remaining capacity, except a reset of that arena.
C17_CursorMonotone ==
  [][\A i \in Slots :
       ( /\ arenas[i].live /\ arenas'[i].live
         /\ \/ arenas'[i].position < arenas[i].position
            \/ remaining_capacity(arenas'[i]) > remaining_capacity(arenas[i]) )
       => (last'.op = "reset" /\ last'.id = i)]_vars

\* C17 witness: an allocate moved the cursor of a partly used arena forward.
C17_Witness ==
  /\ last.op = "allocate" /\ last.ok
  /\ last.pre > 0
  /\ arenas[last.id].position > last.pre
\* C18: in every reachable state, for every arena and every power-of-two
\* align up to 2^(w-1), position + (align - 1) fits the machine word; and
\* whenever the one remaining addition, aligned offset + size, overflows,
\* allocate and can_allocate report failure and leave the cursor alone.
C18_RoundUpFitsWord ==
  \A i \in Slots : arenas[i].live =>
    /\ arenas[i].position <= capacity(arenas[i])
    /\ capacity(arenas[i]) <= IsizeMax
    /\ \A align \in Aligns :
         /\ ~next_multiple_overflows(arenas[i].position, align)
         /\ \A size \in Usize :
              LET layout == [size |-> size, align |-> align]
                  offset == next_multiple(arenas[i].position, align)
              IN  checked_add(offset, size) = None =>
                    /\ ~allocate(arenas[i].position, capacity(arenas[i]), layout).ok
                    /\ allocate(arenas[i].position, capacity(arenas[i]), layout).position
                         = arenas[i].position
                    /\ ~can_allocate(arenas[i].position, capacity(arenas[i]), layout)

\* C18 witness: allocate was asked for the largest alignment on an arena
\* whose cursor already stood at its capacity.
C18_Witness ==
  /\ last.op = "allocate"
  /\ last.layout.align = Pow2(WordBits - 1)
  /\ last.pre > 0
  /\ last.pre = last.cap

\* C19: the backing allocator is called once by a construction that passes
\* the capacity check (allocate of the capacity, pointer-size aligned) and
\* once by drop (deallocate with that same size and alignment); no other
\* call on the arena reaches it, and a failed construction never
\* deallocates.
C19_BackingCalls ==
  /\ [](/\ phase = "none" => backing = <<>>
        /\ phase = "failed" =>
             \/ backing = <<>>
             \/ /\ Len(backing) = 1
                /\ backing[1][1] = "allocate" /\ backing[1][3] = PtrSize
                /\ ~backing[1][4]
        /\ phase = "live" =>
             backing = << <<"allocate", capacity(arenas[Root]), PtrSize, TRUE>> >>
        /\ phase = "dropped" =>
             /\ Len(backing) = 2
             /\ backing[1][1] = "allocate" /\ backing[1][3] = PtrSize /\ backing[1][4]
             /\ backing[2] = <<"deallocate", backing[1][2], backing[1][3], TRUE>>
             /\ last.op = "drop" => backing[2][2] = last.cap)
  /\ [][backing' # backing =>
          /\ last'.op \in {"new_in", "drop"}
          /\ Len(backing') = Len(backing) + 1]_vars

\* C19 witness: an arena that had handed out memory was dropped.
C19_Witness ==
  /\ phase = "dropped"
  /\ last.op = "drop"
  /\ last.pre > 0
  /\ Len(backing) = 2
====
